---- MODULE Spec2Model ----
(***************************************************************************)
(* Model of lab_5_scrapper/scrapper.py: Config validation, the seed-driven *)
(* discovery loop of Crawler.find_articles, HTMLParser.parse and main.     *)
(*                                                                         *)
(* Python strings are sequences of lexical tokens (concatenation is \o,    *)
(* startswith and re.match look at the leading tokens).  A value that may  *)
(* be None is a record [none, s].  A JSON value of the configuration       *)
(* document is a record [type, n, s]: its Python type, its number when it  *)
(* is an int or a bool, its items when it is a string or a list.           *)
(***************************************************************************)
EXTENDS Integers, Sequences, FiniteSets, TLC

\* ------------------------------------------------------------------ bounds
\* largest total_articles_to_find_and_parse of the crawled configurations
MaxTotal == 3
\* longest seed_urls list of the crawled configurations
MaxSeeds == 2
\* most anchors inside the content region of a seed page
MaxAnchors == 2

\* ------------------------------------------------------- program constants
\* upper limit of total_articles_to_find_and_parse
MaxArticles == 150
\* exclusive upper limit of timeout
TimeoutLimit == 60

\* ------------------------------------------------------------ JSON values
JInt(n) == [type |-> "int", n |-> n, s |-> <<>>]
JBool(b) == [type |-> "bool", n |-> IF b THEN 1 ELSE 0, s |-> <<>>]
JStr(s) == [type |-> "str", n |-> 0, s |-> s]
JList(s) == [type |-> "list", n |-> 0, s |-> s]
JDict == [type |-> "dict", n |-> 0, s |-> <<>>]

\* isinstance(v, int): bool is a subclass of int
IsInt(v) == v.type \in {"int", "bool"}

\* ------------------------------------------------------------ seed strings
SeedA == <<"https://", "www.", "comnews.ru/news">>
SeedB == <<"http://", "comnews.ru/digital-economy">>
SeedFtp == <<"ftp://", "comnews.ru/news">>
SeedBare == <<"www.", "comnews.ru/news">>
SeedStrings == {SeedA, SeedB, SeedFtp, SeedBare}

RECURSIVE SeqsUpTo(_, _)
SeqsUpTo(S, n) ==
    IF n = 0 THEN {<<>>}
    ELSE LET shorter == SeqsUpTo(S, n - 1)
         IN shorter \cup {Append(q, x) : q \in {r \in shorter : Len(r) = n - 1}, x \in S}

\* re.match(r'https?://(www.)?', seed_url): anchored at the start; the
\* optional group matches the empty string, so only the scheme decides
MatchSeedPattern(seed_url) ==
    /\ Len(seed_url) >= 1
    /\ seed_url[1] \in {"http://", "https://"}

\* --------------------------------------------------- Config validation
\* the < 0 variant of the first article-count test
ArticlesCheckLoose(total) ==
    IF ~IsInt(total) \/ total.n < 0 THEN "IncorrectNumberOfArticlesError"
    ELSE IF ~(1 < total.n /\ total.n <= MaxArticles) THEN "NumberOfArticlesOutOfRangeError"
    ELSE "ok"

ArticlesCheck(total) ==
    IF ~IsInt(total) \/ total.n <= 0 THEN "IncorrectNumberOfArticlesError"
    ELSE IF ~(1 < total.n /\ total.n <= MaxArticles) THEN "NumberOfArticlesOutOfRangeError"
    ELSE "ok"

SeedCheck(seeds) ==
    IF seeds.type # "list" THEN "IncorrectSeedURLError"
    ELSE IF ~(\A k \in 1..Len(seeds.s) : MatchSeedPattern(seeds.s[k]))
         THEN "IncorrectSeedURLError"
    ELSE "ok"

\* Config._validate_config_content: the first failing rule raises
ValidateConfigContent(document) ==
    IF SeedCheck(document.seed_urls) # "ok" THEN SeedCheck(document.seed_urls)
    ELSE IF ArticlesCheck(document.total) # "ok" THEN ArticlesCheck(document.total)
    ELSE IF document.headers.type # "dict" THEN "IncorrectHeadersError"
    ELSE IF document.encoding.type # "str" THEN "IncorrectEncodingError"
    ELSE IF ~IsInt(document.timeout) \/ ~(0 < document.timeout.n /\ document.timeout.n < TimeoutLimit)
         THEN "IncorrectTimeoutError"
    ELSE IF document.verify.type # "bool" \/ document.headless.type # "bool"
         THEN "IncorrectVerifyError"
    ELSE "ok"

\* the object before / without a successful construction: no accessor values
NoConfig == [made |-> FALSE, seed_urls |-> <<>>, num_articles |-> 0]

\* Config._extract_config_content and the assignments of Config.__init__
ExtractConfigContent(document) ==
    [made |-> TRUE, seed_urls |-> document.seed_urls.s, num_articles |-> document.total.n]

\* ---------------------------------------------- configuration documents
ValidRest ==
    [headers |-> JDict, encoding |-> JStr(<<"utf-8">>), timeout |-> JInt(5),
     verify |-> JBool(TRUE), headless |-> JBool(FALSE)]

MakeDoc(seeds, total, rest) ==
    [seed_urls |-> seeds, total |-> total, headers |-> rest.headers,
     encoding |-> rest.encoding, timeout |-> rest.timeout,
     verify |-> rest.verify, headless |-> rest.headless]

\* documents of the validation specification: every rule has passing and
\* failing values, the article count covers both ends of its range
ConfigSeeds ==
    {JStr(SeedA), JDict} \cup {JList(q) : q \in SeqsUpTo(SeedStrings, MaxSeeds)}
ConfigTotals ==
    {JInt(n) : n \in (-2 .. MaxTotal) \cup ((MaxArticles - 1) .. (MaxArticles + 1))}
        \cup {JStr(<<"5">>), JBool(TRUE), JBool(FALSE)}
ConfigRests ==
    {[headers |-> h, encoding |-> e, timeout |-> t, verify |-> v, headless |-> m] :
        h \in {JDict, JList(<<>>)},
        e \in {JStr(<<"utf-8">>), JInt(8)},
        t \in {JInt(0), JInt(5), JInt(TimeoutLimit - 1), JInt(TimeoutLimit), JStr(<<"5">>)},
        v \in {JBool(TRUE), JInt(1)},
        m \in {JBool(FALSE), JStr(<<"no">>)}}

\* seed lists of the pipeline: Seed(1), Seed(2), ... in configured order
Seed(j) == <<"https://", "www.", "comnews.ru/news?page=", ToString(j)>>
CrawlSeeds ==
    {JList([j \in 1..m |-> Seed(j)]) : m \in 0 .. MaxSeeds} \cup {JList(<<SeedFtp>>)}
CrawlTotals == {JInt(n) : n \in 0 .. MaxTotal}

\* ------------------------------------------------------------ values, None
None == [none |-> TRUE, s |-> <<>>]
Str(s) == [none |-> FALSE, s |-> s]

\* Crawler.__init__: self.url_pattern
url_pattern == <<"https://www.comnews.ru/">>

\* --------------------------------------------------------------- seed pages
HrefA == <<"/content/", "a">>
HrefB == <<"/content/", "b">>
HrefNews == <<"/news/", "c">>
ContentHrefs == {HrefA, HrefB}
\* the href attribute of an anchor; None when the anchor has none
Anchors == {Str(HrefA), Str(HrefB), Str(HrefNews), None}
\* a seed page: whether it has the div 'region region-content', and the
\* anchors inside that div in document order
Layouts ==
    {[div |-> TRUE, anchors |-> a] : a \in SeqsUpTo(Anchors, MaxAnchors)}
        \cup {[div |-> FALSE, anchors |-> <<>>]}

\* str.startswith("/content/")
StartsWithContent(href) == Len(href) >= 1 /\ href[1] = "/content/"

InUrls(url, us) == \E j \in 1..Len(us) : us[j] = url

\* the loop of Crawler._extract_url over links.find_all('a'), from anchor j
RECURSIVE ExtractLoop(_, _, _)
ExtractLoop(anchors, j, us) ==
    IF j > Len(anchors) THEN [urls |-> us, ret |-> None, raised |-> "none"]
    ELSE IF anchors[j].none
         THEN [urls |-> us, ret |-> None, raised |-> "AttributeError"]
    ELSE IF StartsWithContent(anchors[j].s)
            /\ ~InUrls(Str(url_pattern \o anchors[j].s), us)
         THEN [urls |-> Append(us, Str(url_pattern \o anchors[j].s)),
               ret |-> Str(url_pattern \o anchors[j].s), raised |-> "none"]
    ELSE ExtractLoop(anchors, j + 1, us)

\* Crawler._extract_url: the new self.urls, the returned value, the error
ExtractUrl(page, us) ==
    IF ~page.div THEN [urls |-> us, ret |-> None, raised |-> "AttributeError"]
    ELSE ExtractLoop(page.anchors, 1, us)

\* find_articles without the first length test: always appends new_url
AppendNewUrlUnchecked(us, new_url, n_len) == Append(us, new_url)

\* find_articles, lines 268-270: the test after _extract_url, then the append
AppendNewUrl(us, new_url, n_len) ==
    IF Len(us) >= n_len THEN us ELSE Append(us, new_url)

\* the for statement of find_articles stuck on the same seed
NextSeedIndexRetry(idx, nseeds) == idx

\* find_articles, line 260: the seed after seed idx; after the last one the
\* for loop ends and the while loop starts the next pass at the first seed
NextSeedIndex(idx, nseeds) == IF idx < nseeds THEN idx + 1 ELSE 1

\* hrefs of the page's anchors that start with /content/
ContentAnchors(page) ==
    {j \in 1..Len(page.anchors) :
        ~page.anchors[j].none /\ StartsWithContent(page.anchors[j].s)}

ContentLinks(page) == {page.anchors[j].s : j \in ContentAnchors(page)}

\* the page has a /content/ link that is not in us yet
HasNewLink(page, us) ==
    \E j \in ContentAnchors(page) : ~InUrls(Str(url_pattern \o page.anchors[j].s), us)

\* a well-formed page with exactly one /content/ link, not in us yet
OneNewLink(page, us) ==
    /\ page.div
    /\ \A j \in 1..Len(page.anchors) : ~page.anchors[j].none
    /\ Cardinality(ContentAnchors(page)) = 1
    /\ HasNewLink(page, us)

\* ------------------------------------------------------------ article pages
NoDate == [none |-> TRUE, d |-> 0, m |-> 0, y |-> 0]
DateOf(d, m, y) == [none |-> FALSE, d |-> d, m |-> m, y |-> y]
\* the text of a date label: three numbers joined by a separator
DateText(sep, a, b, c) == [sep |-> sep, parts |-> <<a, b, c>>]
NoDateLabel == [present |-> FALSE, text |-> DateText(".", 0, 0, 0)]
DateLabel(t) == [present |-> TRUE, text |-> t]

IsLeap(y) == (y % 4 = 0 /\ y % 100 # 0) \/ y % 400 = 0
DaysIn(m, y) ==
    IF m = 2 THEN (IF IsLeap(y) THEN 29 ELSE 28)
    ELSE IF m \in {4, 6, 9, 11} THEN 30 ELSE 31

\* Core article record as built by Article(url, article_id)
Article(url, article_id) ==
    [url |-> url, article_id |-> article_id, title |-> <<>>, text |-> <<>>,
     date |-> NoDate, topics |-> <<>>, author |-> <<>>]

\* HTMLParser.__init__: self.article
HTMLParserInit(full_url, article_id) == Article(full_url, article_id)

\* HTMLParser.unify_date_format: strptime(date_str, '%d.%m.%Y')
UnifyDateFormat(t) ==
    LET d == t.parts[1]
        m == t.parts[2]
        y == t.parts[3]
    IN IF /\ t.sep = "."
          /\ 1 <= m /\ m <= 12
          /\ 1 <= y /\ y <= 9999
          /\ 1 <= d /\ d <= DaysIn(m, y)
       THEN [ok |-> TRUE, date |-> DateOf(d, m, y)]
       ELSE [ok |-> FALSE, date |-> NoDate]

RECURSIVE Join(_)
\* ''.join(texts)
Join(texts) == IF texts = <<>> THEN <<>> ELSE Head(texts) \o Join(Tail(texts))

\* HTMLParser._fill_article_with_text
FillArticleWithText(article, page) == [article EXCEPT !.text = Join(page.body)]

\* author.find('span').text.split(' ')[-1]
LastWord(name) == IF name = <<>> THEN <<>> ELSE <<name[Len(name)]>>

\* HTMLParser._fill_article_with_meta_information
FillArticleWithMeta(article, page) ==
    IF page.h1.none THEN [article |-> article, raised |-> "AttributeError"]
    ELSE LET a1 == [article EXCEPT !.title = page.h1.s]
             parsed == UnifyDateFormat(page.date.text)
         IN IF page.date.present /\ ~parsed.ok
            THEN [article |-> a1, raised |-> "ValueError"]
            ELSE LET a2 == IF page.date.present
                           THEN [a1 EXCEPT !.date = parsed.date] ELSE a1
                 IN IF \E j \in 1..Len(page.tags) : page.tags[j].none
                    THEN [article |-> a2, raised |-> "AttributeError"]
                    ELSE LET topics == IF page.tags = <<>> THEN <<<<"NOT FOUND">>>>
                                       ELSE [j \in 1..Len(page.tags) |-> page.tags[j].s]
                             authors == IF page.authors = <<>> THEN <<<<"NOT FOUND">>>>
                                        ELSE [j \in 1..Len(page.authors) |->
                                                LastWord(page.authors[j])]
                         IN [article |-> [a2 EXCEPT !.topics = article.topics \o topics,
                                                    !.author = authors],
                             raised |-> "none"]

\* parse that runs the extraction steps whatever the response
ParseAlways(full_url, article_id, response) ==
    FillArticleWithMeta(
        FillArticleWithText(HTMLParserInit(full_url, article_id), response.page),
        response.page)

\* HTMLParser.parse: the returned article, or the error raised
Parse(full_url, article_id, response) ==
    IF response.ok
    THEN FillArticleWithMeta(
             FillArticleWithText(HTMLParserInit(full_url, article_id), response.page),
             response.page)
    ELSE [article |-> HTMLParserInit(full_url, article_id), raised |-> "none"]

PageGood ==
    [body |-> << <<"First. ">>, <<"Second.">> >>, h1 |-> Str(<<"Title">>),
     date |-> DateLabel(DateText(".", 4, 3, 2024)),
     tags |-> <<Str(<<"5G">>), Str(<<"Telecom">>)>>,
     authors |-> << <<"Ivan", "Petrov">> >>]
PageBare ==
    [body |-> <<>>, h1 |-> Str(<<"Title">>), date |-> NoDateLabel,
     tags |-> <<>>, authors |-> <<>>]
PageNoHeading == [PageGood EXCEPT !.h1 = None]
PageIsoDate == [PageGood EXCEPT !.date = DateLabel(DateText("-", 2024, 3, 4))]
PageFeb31 == [PageBare EXCEPT !.date = DateLabel(DateText(".", 31, 2, 2024))]
PageTagNoLink == [PageBare EXCEPT !.tags = <<None>>]
ArticlePages == {PageGood, PageBare, PageNoHeading, PageIsoDate, PageFeb31, PageTagNoLink}

VARIABLES doc, pc, err, config, urls, i, last, newPass,
          allOk, okFetches, offered, oneNewEach, lastHadNew,
          assetsReady, k, persisted

vars == <<doc, pc, err, config, urls, i, last, newPass,
          allOk, okFetches, offered, oneNewEach, lastHadNew,
          assetsReady, k, persisted>>

crawlvars == <<urls, i, newPass, allOk, okFetches, offered, oneNewEach, lastHadNew>>
mainvars == <<assetsReady, k, persisted>>

\* the values of the crawl variables before any Crawler exists
CrawlStart ==
    /\ urls = <<>>
    /\ i = 1
    /\ last = "none"
    /\ newPass = FALSE
    /\ allOk = TRUE
    /\ okFetches = 0
    /\ offered = {}
    /\ oneNewEach = TRUE
    /\ lastHadNew = FALSE
    /\ assetsReady = FALSE
    /\ k = 1
    /\ persisted = <<>>

\* main, line 397: conf = Config(CRAWLER_CONFIG_PATH)
ConfigInit ==
    /\ pc = "start"
    /\ LET verdict == ValidateConfigContent(doc)
       IN IF verdict = "ok"
          THEN /\ config' = ExtractConfigContent(doc)
               /\ pc' = "configured"
               /\ err' = "none"
          ELSE /\ config' = config
               /\ pc' = "raised"
               /\ err' = verdict
    /\ last' = "config"
    /\ UNCHANGED <<doc, crawlvars, mainvars>>

InitConfig ==
    /\ doc \in {MakeDoc(s, t, r) : s \in ConfigSeeds, t \in ConfigTotals, r \in ConfigRests}
    /\ pc = "start"
    /\ err = "none"
    /\ config = NoConfig
    /\ CrawlStart

NextConfig == ConfigInit

SpecConfig == InitConfig /\ [][NextConfig]_vars

\* main, lines 398-399: Crawler(conf), then find_articles up to its while test
CrawlerStart ==
    /\ pc = "configured"
    /\ urls' = <<>>
    /\ i' = 1
    /\ pc' = IF Len(urls') < config.num_articles THEN "find_articles" ELSE "prepare"
    /\ last' = "crawler"
    /\ UNCHANGED <<doc, err, config, newPass, allOk, okFetches, offered, oneNewEach,
                   lastHadNew, mainvars>>

\* find_articles after the body of the for loop left self.urls as us: the
\* break at enough URLs ends both loops, otherwise the next seed is taken
Advance(us) ==
    IF Len(us) >= config.num_articles
    THEN /\ pc' = "prepare"
         /\ i' = i
         /\ newPass' = FALSE
    ELSE /\ pc' = "find_articles"
         /\ i' = NextSeedIndex(i, Len(config.seed_urls))
         /\ newPass' = (i >= Len(config.seed_urls))

InSeedLoop == pc = "find_articles" /\ i <= Len(config.seed_urls)

\* find_articles, lines 261-273: the response of seed i is ok
SeedFetchOk ==
    /\ InSeedLoop
    /\ \E page \in Layouts :
        LET r == ExtractUrl(page, urls)
        IN /\ IF r.raised # "none"
              THEN /\ urls' = r.urls
                   /\ pc' = "raised"
                   /\ err' = r.raised
                   /\ UNCHANGED <<i, newPass>>
              ELSE /\ urls' = AppendNewUrl(r.urls, r.ret, config.num_articles)
                   /\ Advance(urls')
                   /\ err' = err
           /\ offered' = offered \cup ContentLinks(page)
           /\ oneNewEach' = (oneNewEach /\ OneNewLink(page, urls))
           /\ lastHadNew' = HasNewLink(page, urls)
    /\ okFetches' = okFetches + 1
    /\ last' = "seed_ok"
    /\ UNCHANGED <<doc, config, allOk, mainvars>>

\* find_articles, lines 261-263: the response of seed i is not ok
SeedFetchNotOk ==
    /\ InSeedLoop
    /\ urls' = urls
    /\ Advance(urls')
    /\ allOk' = FALSE
    /\ oneNewEach' = FALSE
    /\ lastHadNew' = FALSE
    /\ last' = "seed_not_ok"
    /\ UNCHANGED <<doc, err, config, okFetches, offered, mainvars>>

\* make_request raises (timeout, refused connection): nothing catches it
SeedFetchRaises ==
    /\ InSeedLoop
    /\ pc' = "raised"
    /\ err' = "RequestException"
    /\ allOk' = FALSE
    /\ oneNewEach' = FALSE
    /\ lastHadNew' = FALSE
    /\ last' = "seed_raises"
    /\ UNCHANGED <<doc, config, urls, i, newPass, okFetches, offered, mainvars>>

\* find_articles with no seed: the for loop has no iteration, the while
\* test is evaluated again
EmptyPass ==
    /\ pc = "find_articles"
    /\ Len(config.seed_urls) = 0
    /\ pc' = IF Len(urls) < config.num_articles THEN "find_articles" ELSE "prepare"
    /\ newPass' = TRUE
    /\ last' = "empty_pass"
    /\ UNCHANGED <<doc, err, config, urls, i, allOk, okFetches, offered, oneNewEach,
                   lastHadNew, mainvars>>

\* main, line 400, and the start of the for statement of line 402
PrepareEnvironment ==
    /\ pc = "prepare"
    /\ assetsReady' = TRUE
    /\ k' = 1
    /\ pc' = IF Len(urls) = 0 THEN "done" ELSE "main"
    /\ last' = "prepare"
    /\ UNCHANGED <<doc, err, config, crawlvars, persisted>>

\* main, lines 403-406 for a parse that returned article
Deliver(article) ==
    /\ persisted' = persisted \o <<[op |-> "to_raw", article |-> article],
                                   [op |-> "to_meta", article |-> article]>>
    /\ k' = k + 1
    /\ pc' = IF k = Len(urls) THEN "done" ELSE "main"
    /\ err' = err

\* main, lines 403-406 for a parse that raised
Abort(kind) ==
    /\ pc' = "raised"
    /\ err' = kind
    /\ UNCHANGED <<k, persisted>>

InMainLoop == pc = "main" /\ k <= Len(urls)

\* main, lines 402-406: the article's response is ok.  requests refuses a
\* URL without a scheme, so the entry None gets no response
ArticleFetchOk ==
    /\ InMainLoop
    /\ ~urls[k].none
    /\ \E page \in ArticlePages :
        LET r == Parse(urls[k], k, [ok |-> TRUE, page |-> page])
        IN IF r.raised # "none" THEN Abort(r.raised) ELSE Deliver(r.article)
    /\ last' = "article_ok"
    /\ UNCHANGED <<doc, config, crawlvars, assetsReady>>

\* main, lines 402-406: the article's response is not ok
ArticleFetchNotOk ==
    /\ InMainLoop
    /\ ~urls[k].none
    /\ \E page \in ArticlePages :
        LET r == Parse(urls[k], k, [ok |-> FALSE, page |-> page])
        IN IF r.raised # "none" THEN Abort(r.raised) ELSE Deliver(r.article)
    /\ last' = "article_not_ok"
    /\ UNCHANGED <<doc, config, crawlvars, assetsReady>>

\* main, lines 402-404: make_request raises
ArticleFetchRaises ==
    /\ InMainLoop
    /\ Abort(IF urls[k].none THEN "MissingSchema" ELSE "RequestException")
    /\ last' = "article_raises"
    /\ UNCHANGED <<doc, config, crawlvars, assetsReady>>

Init ==
    /\ doc \in {MakeDoc(s, t, ValidRest) : s \in CrawlSeeds, t \in CrawlTotals}
    /\ pc = "start"
    /\ err = "none"
    /\ config = NoConfig
    /\ CrawlStart

Next ==
    \/ ConfigInit
    \/ CrawlerStart
    \/ SeedFetchOk
    \/ SeedFetchNotOk
    \/ SeedFetchRaises
    \/ EmptyPass
    \/ PrepareEnvironment
    \/ ArticleFetchOk
    \/ ArticleFetchNotOk
    \/ ArticleFetchRaises

Spec == Init /\ [][Next]_vars

\* ------------------------------------------------------------------ claims
Returned == pc = "prepare" \/ assetsReady

\* C1: self.urls never holds the same entry twice
C1_NoDuplicates ==
    \A a, b \in 1..Len(urls) : a # b => urls[a] # urls[b]

\* C2: while find_articles runs, len(self.urls) is at most the target
\* count, also right after the append made inside _extract_url; once
\* find_articles has returned, len(self.urls) equals the target count
C2_NeverExceedsTarget ==
    /\ config.made => Len(urls) <= config.num_articles
    /\ InSeedLoop =>
        \A page \in Layouts : Len(ExtractUrl(page, urls).urls) <= config.num_articles
    /\ Returned => Len(urls) = config.num_articles

\* find_articles returned a full list whose last entry was appended inside
\* _extract_url, the append of find_articles being skipped by the break
C2_Witness ==
    /\ pc = "prepare"
    /\ last = "seed_ok"
    /\ Len(urls) = config.num_articles
    /\ Len(urls) = 3
    /\ ~urls[3].none
    /\ urls[3] # urls[2]

IsAbsoluteContentUrl(u) ==
    ~u.none /\ \E h \in ContentHrefs : u.s = url_pattern \o h

\* C3: two seeds, target count 2, every fetch ok and every fetched page
\* holding exactly one new /content/ link: find_articles returns within
\* one pass with two distinct absolute URLs, one per seed
C3_TwoSeedsTwoUrls ==
    (/\ pc = "prepare"
     /\ Len(config.seed_urls) = 2
     /\ config.num_articles = 2
     /\ oneNewEach)
    => /\ Len(urls) = 2
       /\ urls[1] # urls[2]
       /\ \A j \in 1..Len(urls) : IsAbsoluteContentUrl(urls[j])
       /\ okFetches = 2
       /\ i = 2

\* C4: a successful seed fetch whose page has no /content/ link that is
\* not yet in self.urls leaves self.urls unchanged
C4_NoLinkNoAppend ==
    [][(last' = "seed_ok" /\ ~lastHadNew') => urls' = urls]_vars

\* C5: when main ends, whatever the article fetches and extractions did,
\* every entry of crawler.urls was handed to to_raw then to_meta exactly
\* once, in discovery order, with ids 1, 2, ..., len(crawler.urls)
C5_EveryUrlDelivered ==
    (pc = "done" \/ (pc = "raised" /\ assetsReady))
    => /\ Len(persisted) = 2 * Len(urls)
       /\ \A j \in 1..Len(urls) :
            /\ persisted[2 * j - 1].op = "to_raw"
            /\ persisted[2 * j].op = "to_meta"
            /\ persisted[2 * j - 1].article = persisted[2 * j].article
            /\ persisted[2 * j].article.url = urls[j]
            /\ persisted[2 * j].article.article_id = j

\* C6: a configuration whose seed_urls is an empty list or holds a string
\* that does not match the pattern is rejected with IncorrectSeedURLError,
\* so find_articles never runs with an empty seed list
C6_BadSeedsRejected ==
    /\ (/\ last # "none"
        /\ doc.seed_urls.type = "list"
        /\ \/ Len(doc.seed_urls.s) = 0
           \/ \E j \in 1..Len(doc.seed_urls.s) :
                 doc.seed_urls.s[j][1] \notin {"http://", "https://"})
       => err = "IncorrectSeedURLError"
    /\ pc = "find_articles" => Len(config.seed_urls) > 0

OthersValid ==
    /\ doc.seed_urls.type = "list"
    /\ \A j \in 1..Len(doc.seed_urls.s) : doc.seed_urls.s[j][1] \in {"http://", "https://"}
    /\ doc.headers.type = "dict"
    /\ doc.encoding.type = "str"
    /\ doc.timeout.type = "int" /\ 0 < doc.timeout.n /\ doc.timeout.n < 60
    /\ doc.verify.type = "bool"
    /\ doc.headless.type = "bool"

\* C7: with the other fields valid, an integer article count is accepted
\* exactly when 1 < value <= 150; value <= 0 raises
\* IncorrectNumberOfArticlesError, value = 1 or value > 150 raises
\* NumberOfArticlesOutOfRangeError; a failed construction leaves no Config
C7_ArticleCountRange ==
    /\ pc = "raised" /\ last = "config" => config = NoConfig
    /\ (last = "config" /\ OthersValid /\ doc.total.type = "int") =>
        LET n == doc.total.n
        IN /\ (1 < n /\ n <= 150) <=> (pc = "configured")
           /\ pc = "configured" => (config.made /\ config.num_articles = n /\ err = "none")
           /\ n <= 0 => (pc = "raised" /\ err = "IncorrectNumberOfArticlesError")
           /\ (n = 1 \/ n > 150) => (pc = "raised" /\ err = "NumberOfArticlesOutOfRangeError")

\* the largest accepted article count was validated
C7_Witness ==
    /\ last = "config"
    /\ OthersValid
    /\ doc.total = JInt(150)
    /\ pc = "configured"
    /\ config.num_articles = 150

\* C8: a seed fetch that is not ok changes nothing in self.urls, raises
\* nothing, and the loop goes on with the next seed in configured order
\* (after the last seed, with the first seed of a new pass)
C8_FailedSeedSkipped ==
    [][last' = "seed_not_ok" =>
        /\ urls' = urls
        /\ err' = "none"
        /\ pc' = "find_articles"
        /\ IF i < Len(config.seed_urls)
           THEN i' = i + 1 /\ ~newPass'
           ELSE i' = 1 /\ newPass']_vars

\* the first seed was skipped in the middle of a pass, URLs already found
C8_Witness ==
    /\ last = "seed_not_ok"
    /\ pc = "find_articles"
    /\ i = 2
    /\ ~newPass
    /\ Len(urls) >= 1

\* C9: when the article's response is not ok, parse raises nothing and the
\* article it returns is the one made at construction: url and id only
C9_FailedArticleUntouched ==
    [][last' = "article_not_ok" =>
        /\ err' = "none"
        /\ pc' # "raised"
        /\ k' = k + 1
        /\ persisted' = persisted \o
              <<[op |-> "to_raw", article |-> Article(urls[k], k)],
                [op |-> "to_meta", article |-> Article(urls[k], k)]>>]_vars

\* a second article whose fetch failed was delivered with empty fields
C9_Witness ==
    /\ last = "article_not_ok"
    /\ Len(persisted) = 4
    /\ persisted[4].article.article_id = 2
    /\ persisted[4].article.title = <<>>
    /\ persisted[4].article.topics = <<>>
    /\ persisted[2].article.title # <<>>

\* C10: every seed fetch ok and fewer distinct /content/ links offered
\* than the target count: the discovered count never reaches the target,
\* so find_articles never returns
C10_NeverReturns ==
    (/\ config.made
     /\ Len(config.seed_urls) > 0
     /\ allOk
     /\ Cardinality(offered) < config.num_articles)
    => /\ Len(urls) < config.num_articles
       /\ ~Returned

====
